---- MODULE Spec2Model ----
(***************************************************************************)
(* A model of main.py: a Flask application with two routes, index ('/')    *)
(* and serve_file ('/<path:path>'), both delegating to                     *)
(* send_from_directory('.', ...), run by app.run(host='0.0.0.0',           *)
(* port=5000, debug=True).                                                 *)
(*                                                                         *)
(* What main.py calls is modelled by what it does:                         *)
(*   - Flask(__name__) registers, besides the two routes of main.py, the   *)
(*     route /static/<path:filename> (static_folder defaults to 'static'); *)
(*   - @app.route without methods= answers GET, and Flask adds HEAD and    *)
(*     OPTIONS; every other method is answered 405 by the URL map;         *)
(*   - send_from_directory is safe_join (lexical: normpath, then refuse a  *)
(*     result that starts with '..'), os.path.isfile, then send_file,      *)
(*     which opens the file; isfile and open follow symbolic links;        *)
(*   - app.run(debug=True) wraps the application in the interactive        *)
(*     debugger, which answers the path /console itself for every method   *)
(*     and turns an unhandled exception into a 500 traceback page; the     *)
(*     development server handles each request in a thread of its own.     *)
(*                                                                         *)
(* A URL path is the sequence of its segments: <<>> is '/', <<"a","b">>    *)
(* is '/a/b'.  Segments are non-empty (no doubled or trailing slashes) and *)
(* requests carry no query string and no conditional or range headers.     *)
(***************************************************************************)
EXTENDS Naturals, Sequences, FiniteSets, TLC

VARIABLES fs, secret_key, serving, thr, baseline, failed

vars == <<fs, secret_key, serving, thr, baseline, failed>>

\* Longest request path, in segments.
MaxSegs == 2
\* Symbolic links followed while resolving one path before the OS gives up.
MaxSymlinks == 2

Workers == {"w1", "w2"}
SeqWorkers == {"w1"}

Methods == {"GET", "HEAD", "OPTIONS", "POST", "PUT", "DELETE", "PATCH"}
Segments == {"index.html", "static", "console", "f", ".."}
UrlPaths == UNION {[1..n -> Segments] : n \in 0..MaxSegs}

NoPath == <<"?">>

Last(s) == s[Len(s)]
Front(s) == SubSeq(s, 1, Len(s) - 1)
IsPrefix(p, q) == Len(p) <= Len(q) /\ SubSeq(q, 1, Len(p)) = p

(***************************************************************************)
(* The filesystem: absolute paths to nodes.  / holds the file /f (outside  *)
(* the root) and the directory /srv, the application's root_path.          *)
(***************************************************************************)
RootDir == <<"srv">>
StaticDir == RootDir \o <<"static">>
ConsolePath == <<"console">>

Absent == [kind |-> "none", data |-> "", readable |-> FALSE, target |-> NoPath]
Dir == [kind |-> "dir", data |-> "", readable |-> TRUE, target |-> NoPath]
File(d, r) == [kind |-> "file", data |-> d, readable |-> r, target |-> NoPath]
Link(t) == [kind |-> "link", data |-> "", readable |-> TRUE, target |-> t]

IndexOptions == {Absent, Dir, File("IDX", TRUE), File("IDX", FALSE), Link(<<"f">>)}
ConsoleOptions == {Absent, File("CON", TRUE), File("CON", FALSE)}
StaticOptions == {Absent, Dir, Link(<<>>)}

\* fs holds what varies: the nodes at ./index.html, ./console and ./static.
Layouts == [index : IndexOptions, console : ConsoleOptions, static : StaticOptions]

ConcLayouts ==
    [index : {File("IDX", TRUE), File("IDX", FALSE)}, console : {Absent},
     static : {Dir, Link(<<>>)}]

Node(p) ==
    CASE p = <<>> -> Dir
      [] p = <<"f">> -> File("SECRET", TRUE)
      [] p = RootDir -> Dir
      [] p = RootDir \o <<"index.html">> -> fs.index
      [] p = RootDir \o <<"console">> -> fs.console
      [] p = StaticDir -> fs.static
      [] p = StaticDir \o <<"f">> -> IF fs.static = Dir THEN File("STA", TRUE) ELSE Absent
      [] OTHER -> Absent

\* The OS's path resolution: the real path of an absolute path, following
\* symbolic links and '..' entries, or NoPath when a component is missing.
RECURSIVE Walk(_, _, _)
Walk(cur, rest, fuel) ==
    IF rest = <<>> THEN cur
    ELSE IF Head(rest) = ".."
    THEN Walk(IF cur = <<>> THEN <<>> ELSE Front(cur), Tail(rest), fuel)
    ELSE LET cand == Append(cur, Head(rest))
             n == Node(cand)
         IN  CASE n.kind = "none" -> NoPath
               [] n.kind = "file" -> IF Tail(rest) = <<>> THEN cand ELSE NoPath
               [] n.kind = "dir" -> Walk(cand, Tail(rest), fuel)
               [] n.kind = "link" ->
                    IF fuel = 0 THEN NoPath
                    ELSE Walk(<<>>, n.target \o Tail(rest), fuel - 1)

realpath(p) == Walk(<<>>, p, MaxSymlinks)

isfile(p) == realpath(p) # NoPath /\ Node(realpath(p)).kind = "file"

\* posixpath.normpath of a relative path: '..' removes the segment before
\* it, and is kept when there is none.
RECURSIVE Norm(_, _)
Norm(rest, acc) ==
    IF rest = <<>> THEN acc
    ELSE IF Head(rest) = ".." /\ acc # <<>> /\ Last(acc) # ".."
    THEN Norm(Tail(rest), Front(acc))
    ELSE Norm(Tail(rest), Append(acc, Head(rest)))

normpath(p) == Norm(p, <<>>)

\* A plain join, with no check: what a handler without safe_join would open.
join_unchecked(directory, filename) == directory \o filename

\* werkzeug's safe_join: the normalised filename under the directory, or
\* NoPath when it is '..' or starts with '../'.
safe_join(directory, filename) ==
    LET n == normpath(filename)
    IN  IF n # <<>> /\ n[1] = ".." THEN NoPath ELSE directory \o n

(***************************************************************************)
(* A request in a worker thread: its position (pc) and the handler's       *)
(* locals.  opened is the real path of the file send_file read.            *)
(***************************************************************************)
Idle ==
    [pc |-> "idle", method |-> "", url |-> <<>>, target |-> NoPath,
     opened |-> NoPath, status |-> 0, body |-> ""]

\* A werkzeug Response: a HEAD request gets the status and no body.
Resp(t, status, body) ==
    [t EXCEPT !.pc = "done", !.status = status,
              !.body = IF t.method = "HEAD" THEN "" ELSE body]

\* The methods a route answers: @app.route's default, GET, to which Flask
\* adds HEAD and OPTIONS.
RouteMethodsWithPost == {"GET", "HEAD", "OPTIONS", "POST"}

RouteMethods == {"GET", "HEAD", "OPTIONS"}

\* The URL map: '/' is index, '/static/<path:filename>' is Flask's own
\* static route, and every other path is serve_file.
Endpoint(u) ==
    IF u = <<>> THEN "index"
    ELSE IF Len(u) >= 2 /\ u[1] = "static" THEN "static"
    ELSE "serve_file"

\* The server accepts a request and hands it to a thread.
Accept(w, m, u) ==
    /\ serving
    /\ thr[w].pc = "idle"
    /\ thr' = [thr EXCEPT ![w] = [Idle EXCEPT !.pc = "recv", !.method = m, !.url = u]]
    /\ UNCHANGED <<fs, secret_key, serving, baseline, failed>>

\* debug=True: the debugger middleware answers /console itself, for every
\* method, and passes every other request to the application.
DebuggedApplication(w) ==
    /\ thr[w].pc = "recv"
    /\ thr' = [thr EXCEPT ![w] =
                 IF thr[w].url = ConsolePath
                 THEN Resp(thr[w], 200, "ConsolePage")
                 ELSE [thr[w] EXCEPT !.pc = "route"]]
    /\ UNCHANGED <<fs, secret_key, serving, baseline, failed>>

\* Flask's dispatch: 405 for a method the matched rule does not list, the
\* automatic OPTIONS response, else the view function of the endpoint.
dispatch_request(w) ==
    /\ thr[w].pc = "route"
    /\ thr' = [thr EXCEPT ![w] =
                 IF thr[w].method \notin RouteMethods
                 THEN Resp(thr[w], 405, "MethodNotAllowedPage")
                 ELSE IF thr[w].method = "OPTIONS"
                 THEN Resp(thr[w], 200, "")
                 ELSE [thr[w] EXCEPT !.pc = Endpoint(thr[w].url)]]
    /\ UNCHANGED <<fs, secret_key, serving, baseline, failed>>

\* send_from_directory up to the point where the file is opened: NotFound
\* when safe_join refuses the path or the path is no file.
send_from_directory(t, directory, path) ==
    LET p == safe_join(directory, path)
    IN  IF p = NoPath \/ ~isfile(p)
        THEN Resp(t, 404, "NotFoundPage")
        ELSE [t EXCEPT !.pc = "send", !.target = p]

index_other_file(w) ==
    /\ thr[w].pc = "index"
    /\ thr' = [thr EXCEPT ![w] = send_from_directory(thr[w], RootDir, <<"f">>)]
    /\ UNCHANGED <<fs, secret_key, serving, baseline, failed>>

index(w) ==
    /\ thr[w].pc = "index"
    /\ thr' = [thr EXCEPT ![w] = send_from_directory(thr[w], RootDir, <<"index.html">>)]
    /\ UNCHANGED <<fs, secret_key, serving, baseline, failed>>

serve_file(w) ==
    /\ thr[w].pc = "serve_file"
    /\ thr' = [thr EXCEPT ![w] = send_from_directory(thr[w], RootDir, thr[w].url)]
    /\ UNCHANGED <<fs, secret_key, serving, baseline, failed>>

send_static_file(w) ==
    /\ thr[w].pc = "static"
    /\ thr' = [thr EXCEPT ![w] = send_from_directory(thr[w], StaticDir, Tail(thr[w].url))]
    /\ UNCHANGED <<fs, secret_key, serving, baseline, failed>>

\* The path send_file opens: the local of the thread's own call.
SendTargetShared(w) ==
    IF \E v \in Workers \ {w} : thr[v].pc = "send"
    THEN thr[CHOOSE v \in Workers \ {w} : thr[v].pc = "send"].target
    ELSE thr[w].target

SendTarget(w) == thr[w].target

\* What send_file answers: the file's bytes, or, when open() raises, the
\* debugger's 500 traceback page (written as is, whatever the method).
FileResponse(w) ==
    LET r == realpath(SendTarget(w))
    IN  IF r # NoPath /\ Node(r).kind = "file" /\ Node(r).readable
        THEN [Resp(thr[w], 200, Node(r).data) EXCEPT !.opened = r]
        ELSE [thr[w] EXCEPT !.pc = "done", !.status = 500, !.body = "TracebackPage"]

send_file_touching(w) ==
    /\ thr[w].pc = "send"
    /\ thr' = [thr EXCEPT ![w] = FileResponse(w)]
    /\ fs' = [fs EXCEPT !.index = File("", TRUE)]
    /\ UNCHANGED <<secret_key, serving, baseline, failed>>

send_file(w) ==
    /\ thr[w].pc = "send"
    /\ thr' = [thr EXCEPT ![w] = FileResponse(w)]
    /\ UNCHANGED <<fs, secret_key, serving, baseline, failed>>

FailureStatuses == {403, 404, 405, 500}

RespondThenStop(w) ==
    /\ thr[w].pc = "done"
    /\ thr' = [thr EXCEPT ![w] = Idle]
    /\ serving' = (thr[w].status # 500)
    /\ UNCHANGED <<fs, secret_key>>

\* The response is written and the thread ends; the server keeps serving.
Respond(w) ==
    /\ thr[w].pc = "done"
    /\ thr' = [thr EXCEPT ![w] = Idle]
    /\ UNCHANGED <<fs, secret_key, serving>>

(***************************************************************************)
(* History, kept for the claims only: the first response completed before  *)
(* any failure, and whether some request has failed since the start.       *)
(***************************************************************************)
NoBaseline == [method |-> "", url |-> <<>>, status |-> 0, body |-> ""]

Track(w) ==
    /\ failed' = (failed \/ thr[w].status \in FailureStatuses)
    /\ baseline' = IF baseline = NoBaseline /\ ~failed
                   THEN [method |-> thr[w].method, url |-> thr[w].url,
                         status |-> thr[w].status, body |-> thr[w].body]
                   ELSE baseline

\* app.secret_key: SESSION_SECRET of the environment, or the default.
SecretKeys == {"income-tax-calculator-secret-key", "SESSION_SECRET"}

Init ==
    /\ fs \in Layouts
    /\ secret_key \in SecretKeys
    /\ serving = TRUE
    /\ thr = [w \in Workers |-> Idle]
    /\ baseline = NoBaseline
    /\ failed = FALSE

\* One request at a time, any method and any path.
Next ==
    \E w \in SeqWorkers :
       \/ \E m \in Methods, u \in UrlPaths : Accept(w, m, u)
       \/ DebuggedApplication(w)
       \/ dispatch_request(w)
       \/ index(w)
       \/ serve_file(w)
       \/ send_static_file(w)
       \/ send_file(w)
       \/ Respond(w) /\ UNCHANGED <<baseline, failed>>

Spec == Init /\ [][Next]_vars

\* The threaded server: requests in flight together, over a chosen set of
\* requests, with the history kept.
ConcRequests ==
    {<<"GET", <<>>>>, <<"GET", <<"index.html">>>>, <<"GET", <<"static", "f">>>>,
     <<"GET", <<"f">>>>, <<"GET", <<"..", "f">>>>, <<"POST", <<"index.html">>>>,
     <<"GET", <<"console">>>>}

InitConc ==
    /\ fs \in ConcLayouts
    /\ secret_key \in SecretKeys
    /\ serving = TRUE
    /\ thr = [w \in Workers |-> Idle]
    /\ baseline = NoBaseline
    /\ failed = FALSE

NextConc ==
    \E w \in Workers :
       \/ \E r \in ConcRequests : Accept(w, r[1], r[2])
       \/ DebuggedApplication(w)
       \/ dispatch_request(w)
       \/ index(w)
       \/ serve_file(w)
       \/ send_static_file(w)
       \/ send_file(w)
       \/ Respond(w) /\ Track(w)

SpecConc == InitConc /\ [][NextConc]_vars

(***************************************************************************)
(* The vocabulary of the claims.                                           *)
(***************************************************************************)
Done(w) == thr[w].pc = "done"

FileData == {"IDX", "CON", "STA", "SECRET"}

InsideRoot(p) == p # NoPath /\ IsPrefix(RootDir, p)

\* The request path resolved against a base directory, lexically: '..'
\* steps to the parent, and the parent of / is /.
RECURSIVE Lex(_, _)
Lex(rest, acc) ==
    IF rest = <<>> THEN acc
    ELSE IF Head(rest) = ".."
    THEN Lex(Tail(rest), IF acc = <<>> THEN <<>> ELSE Front(acc))
    ELSE Lex(Tail(rest), Append(acc, Head(rest)))

\* The file a request path names: index.html for '/'.
Named(u) == IF u = <<>> THEN RootDir \o <<"index.html">> ELSE Lex(u, RootDir)

Escapes(u) == ~IsPrefix(RootDir, Lex(u, RootDir))

\* The named path is lexically inside the root, and a symbolic link on it
\* leads to a file outside the root.
ThroughOutsideLink(u) ==
    /\ ~Escapes(u)
    /\ \E k \in 1..Len(Named(u)) : Node(SubSeq(Named(u), 1, k)).kind = "link"
    /\ realpath(Named(u)) # NoPath
    /\ ~InsideRoot(realpath(Named(u)))
    /\ Node(realpath(Named(u))).kind = "file"

\* u is the relative path of a regular file under the root: no '..', every
\* directory on the way a directory, the last node a file.
RegularFile(u) ==
    /\ u # <<>>
    /\ \A k \in 1..Len(u) : u[k] # ".."
    /\ \A k \in 1..(Len(u) - 1) : Node(RootDir \o SubSeq(u, 1, k)).kind = "dir"
    /\ Node(RootDir \o u).kind = "file"

\* C1: every GET request whose path, resolved against the root, lies
\* outside the root is answered 403 or 404, never 200, and reads no file
\* and carries no file's contents, whatever requests came before.
C1_TraversalRejected ==
    \A w \in Workers :
        (Done(w) /\ thr[w].method = "GET" /\ Escapes(thr[w].url))
            => /\ thr[w].status \in {403, 404}
               /\ thr[w].opened = NoPath
               /\ thr[w].body \notin FileData

\* C1's case: GET /../f, which names the existing file /f outside the root,
\* has been answered.
C1_Witness ==
    \E w \in Workers :
        /\ Done(w) /\ thr[w].method = "GET"
        /\ thr[w].url = <<"..", "f">>
        /\ Node(Lex(thr[w].url, RootDir)).kind = "file"
        /\ thr[w].status = 404

\* C2: every GET request whose path is lexically inside the root but leads
\* through a symbolic link to a file outside the root is answered 403 or
\* 404, and the file read is inside the root after symlink resolution.
C2_SymlinkEscapeRejected ==
    \A w \in Workers :
        (Done(w) /\ thr[w].method = "GET" /\ ThroughOutsideLink(thr[w].url))
            => /\ thr[w].status \in {403, 404}
               /\ thr[w].opened = NoPath \/ InsideRoot(thr[w].opened)
               /\ thr[w].body # "SECRET"

\* C3: for every regular, readable file under the root, GET of its relative
\* path is answered 200 with exactly the file's contents.
C3_EveryFileServed ==
    \A w \in Workers :
        (/\ Done(w) /\ thr[w].method = "GET"
         /\ RegularFile(thr[w].url)
         /\ Node(RootDir \o thr[w].url).readable)
            => /\ thr[w].status = 200
               /\ thr[w].body = Node(RootDir \o thr[w].url).data

\* C4: whenever index.html is a regular file directly under the root, the
\* answers to GET / and to GET /index.html have the same status and the
\* same payload.
C4_IndexSameAsIndexHtml ==
    \A v, w \in Workers :
        (/\ Done(v) /\ thr[v].method = "GET" /\ thr[v].url = <<>>
         /\ Done(w) /\ thr[w].method = "GET" /\ thr[w].url = <<"index.html">>
         /\ fs.index.kind = "file")
            => /\ thr[v].status = thr[w].status
               /\ thr[v].body = thr[w].body

\* C4's case: both requests answered 200 with index.html's contents.
C4_Witness ==
    \E v, w \in Workers :
        /\ Done(v) /\ thr[v].method = "GET" /\ thr[v].url = <<>>
        /\ Done(w) /\ thr[w].method = "GET" /\ thr[w].url = <<"index.html">>
        /\ fs.index.kind = "file"
        /\ thr[v].status = 200 /\ thr[v].body = "IDX"

\* C5: a GET request whose resolved path does not exist, or is a
\* directory, is answered 404 with no listing; GET / is answered 404 when
\* index.html is absent.
C5_MissingIs404 ==
    \A w \in Workers :
        (/\ Done(w) /\ thr[w].method = "GET"
         /\ ~Escapes(thr[w].url)
         /\ \/ realpath(Named(thr[w].url)) = NoPath
            \/ Node(realpath(Named(thr[w].url))).kind = "dir")
            => /\ thr[w].status = 404
               /\ thr[w].body = "NotFoundPage"

\* C6: a GET request whose resolved path is an existing regular file inside
\* the root that cannot be read is answered 500, not 200, 403 or 404, with
\* none of the file's contents.
C6_UnreadableIs500 ==
    \A w \in Workers :
        (/\ Done(w) /\ thr[w].method = "GET"
         /\ ~Escapes(thr[w].url)
         /\ Node(Named(thr[w].url)).kind = "file"
         /\ ~Node(Named(thr[w].url)).readable)
            => /\ thr[w].status = 500
               /\ thr[w].body \notin FileData

OwnStatus(u) ==
    IF u = ConsolePath THEN 200
    ELSE IF Escapes(u) \/ ~isfile(Named(u)) THEN 404
    ELSE IF Node(realpath(Named(u))).readable THEN 200
    ELSE 500

\* C9: under every interleaving of requests in flight together, each GET
\* request is answered with the status its own path determines and, when
\* 200, with the bytes of its own file; no answer carries another
\* request's file.
C9_NoCrossContamination ==
    \A w \in Workers :
        (Done(w) /\ thr[w].method = "GET") =>
            /\ thr[w].status = OwnStatus(thr[w].url)
            /\ (thr[w].status = 200 /\ thr[w].url # ConsolePath)
                  => /\ thr[w].opened = realpath(Named(thr[w].url))
                     /\ thr[w].body = Node(realpath(Named(thr[w].url))).data
            /\ (thr[w].status # 200) => thr[w].body \notin FileData

\* C9's case: one request answered with its own file while another request,
\* for a different file, is about to read it.
C9_Witness ==
    \E v, w \in Workers :
        /\ v # w
        /\ Done(w) /\ thr[w].method = "GET" /\ thr[w].status = 200
        /\ thr[w].body = "IDX"
        /\ thr[v].pc = "send" /\ thr[v].target = StaticDir \o <<"f">>

\* C10: no step of request handling, for any method or path, successful or
\* failing, changes the filesystem under the root or the secret key.
C10_ReadOnly == [][fs' = fs /\ secret_key' = secret_key]_vars

\* C10's case: a file has been read and served, with the key taken from
\* the environment.
C10_Witness ==
    \E w \in Workers :
        /\ Done(w) /\ thr[w].method = "GET" /\ thr[w].status = 200
        /\ thr[w].opened = StaticDir \o <<"f">>
        /\ secret_key = "SESSION_SECRET"

====
